---- MODULE Spec2Model ----
(***************************************************************************)
(* Model of coffea.ml_tools.triton_wrapper: the batched remote-inference   *)
(* dispatcher (batch_size resolution, validate_numpy_input, numpy_call).   *)
(*                                                                         *)
(* Arrays are modelled by their shape, their element type and one value    *)
(* per row of the leading axis.  Values are counted in halves (the value   *)
(* 3 stands for 1.5) so that a cast from a floating type to an integer     *)
(* type is visible: it truncates.                                          *)
(***************************************************************************)
EXTENDS Integers, Sequences, FiniteSets, TLC

\* Largest leading length L of a dispatched request.
MaxLen == 5
\* Largest number of public operations started on one instance.
MaxOps == 3

\* triton_wrapper.batch_size_fallback
batch_size_fallback == 10

\* The sentinel that the code stores in place of "no value yet".
NoMeta == [inputs |-> <<>>, outputs |-> <<>>, loaded |-> FALSE]

---------------------------------------------------------------------------
(* The serving endpoint: what get_model_metadata and get_model_config      *)
(* answer.  Both are outside the repository; the model draws them from     *)
(* small sets at Init and keeps them fixed.                                *)

\* get_model_metadata(..., as_json=True) for a model with one input with a
\* fixed trailing dimension.
SchemaA ==
    [inputs  |-> << [name |-> "x", shape |-> <<-1, 2>>, datatype |-> "FP32"] >>,
     outputs |-> << [name |-> "y", shape |-> <<-1, 2>>, datatype |-> "FP32"] >>,
     loaded  |-> TRUE]

\* A model with two inputs and wildcard trailing dimensions, and an output
\* with a wildcard trailing dimension.
SchemaB ==
    [inputs  |-> << [name |-> "x", shape |-> <<-1, -1>>, datatype |-> "FP32"],
                    [name |-> "w", shape |-> <<-1, -1>>, datatype |-> "INT32"] >>,
     outputs |-> << [name |-> "y", shape |-> <<-1, 2>>,  datatype |-> "FP32"],
                    [name |-> "z", shape |-> <<-1, -1>>, datatype |-> "FP32"] >>,
     loaded  |-> TRUE]

\* A model whose input writes its wildcard trailing dimension as 0.
SchemaC ==
    [inputs  |-> << [name |-> "x", shape |-> <<-1, 0>>, datatype |-> "FP32"] >>,
     outputs |-> << [name |-> "y", shape |-> <<-1, 2>>, datatype |-> "FP32"] >>,
     loaded  |-> TRUE]

ServerSchemas == {SchemaA, SchemaB, SchemaC}

\* get_model_config(..., as_json=True)["config"]: which keys are present and
\* the values they carry.
ServerConfigs ==
    { [has_dyn |-> TRUE,  has_pref |-> TRUE,  pref |-> -1, has_max |-> FALSE, max |-> 0],
      [has_dyn |-> TRUE,  has_pref |-> TRUE,  pref |-> 3,  has_max |-> TRUE,  max |-> 2],
      [has_dyn |-> TRUE,  has_pref |-> FALSE, pref |-> 0,  has_max |-> TRUE,  max |-> 3],
      [has_dyn |-> FALSE, has_pref |-> FALSE, pref |-> 0,  has_max |-> TRUE,  max |-> 0],
      [has_dyn |-> FALSE, has_pref |-> FALSE, pref |-> 0,  has_max |-> TRUE,  max |-> 2],
      [has_dyn |-> FALSE, has_pref |-> FALSE, pref |-> 0,  has_max |-> FALSE, max |-> 0] }

\* The configurations paired with an explicit batch size (which never reads
\* them): one with every key, one with none.
OverriddenConfigs == { c \in ServerConfigs : c.has_dyn = c.has_max /\ c.pref >= 0 }

\* Values of the constructor's batch_size argument.
Overrides == {-1, 0, 2}

---------------------------------------------------------------------------
(* Small helpers.                                                          *)

Range(s) == { s[i] : i \in 1..Len(s) }

Min(a, b) == IF a <= b THEN a ELSE b

\* Index of the first record of s named n (0 when there is none): the
\* lookup d[n] of an insertion-ordered dict.
RECURSIVE IndexFrom(_, _, _)
IndexFrom(s, n, i) ==
    IF i > Len(s) THEN 0
    ELSE IF s[i].name = n THEN i
    ELSE IndexFrom(s, n, i + 1)

IndexOf(s, n) == IndexFrom(s, n, 1)

---------------------------------------------------------------------------
(* Schema extraction (lazy attributes model_inputs / model_outputs).       *)

\* _create_model_inputs: name -> {shape, datatype}, in metadata order.
CreateModelInputs(meta) ==
    [i \in 1..Len(meta.inputs) |->
        [name     |-> meta.inputs[i].name,
         shape    |-> meta.inputs[i].shape,
         datatype |-> meta.inputs[i].datatype]]

\* _create_model_outputs: name -> {shape}; the declared type is dropped.
CreateModelOutputs(meta) ==
    [i \in 1..Len(meta.outputs) |->
        [name  |-> meta.outputs[i].name,
         shape |-> meta.outputs[i].shape]]

---------------------------------------------------------------------------
(* Element types and values.                                               *)

\* tritonclient.utils.triton_to_np_dtype
triton_to_np_dtype(t) ==
    CASE t = "FP32"  -> "float32"
      [] t = "INT32" -> "int32"
      [] OTHER       -> "object"

\* numpy astype on one value (in halves): a cast to an integer type drops
\* the fractional half, every other cast keeps the value.
AsType(v, to) == IF to = "int32" THEN (v \div 2) * 2 ELSE v

\* Faulty variant of Resize: the rows beyond the source are filled with zeros.
ResizeZeroFill(rows, n) ==
    [j \in 1..n |-> IF j <= Len(rows) THEN rows[j] ELSE 0]

\* numpy.resize(rows, (n, ...)) for rows of one trailing shape: the rows are
\* repeated in order until n rows are filled; an empty source gives zeros.
Resize(rows, n) ==
    [j \in 1..n |-> IF Len(rows) = 0 THEN 0 ELSE rows[((j - 1) % Len(rows)) + 1]]

\* rows[start:stop] with 0 <= start <= stop, clipped to the length as
\* Python slicing clips.
Slice(rows, start, stop) ==
    LET hi == Min(stop, Len(rows))
    IN  IF start >= hi THEN <<>> ELSE SubSeq(rows, start + 1, hi)

---------------------------------------------------------------------------
(* batch_size property.                                                    *)

\* Faulty variant of batch_size: an unresolved batch size is set to the
\* fallback without asking the server for the configuration.
BatchSizeNoFetch(bs, cfg) ==
    IF bs < 0
    THEN [ok |-> TRUE, val |-> batch_size_fallback, fetch |-> 0, write |-> 1, warn |-> TRUE]
    ELSE [ok |-> TRUE, val |-> bs, fetch |-> 0, write |-> 0, warn |-> FALSE]

\* One read of self.batch_size with cached value bs against server
\* configuration cfg: the value returned (val) and stored (the same), whether
\* get_model_config was called, whether the read raised (KeyError on a
\* dynamic_batching section without preferred_batch_size), whether the
\* fallback warning was issued.
batch_size(bs, cfg) ==
    IF bs < 0 THEN
        IF cfg.has_dyn THEN
            IF cfg.has_pref
            THEN [ok |-> TRUE,  val |-> cfg.pref, fetch |-> 1, write |-> 1, warn |-> FALSE]
            ELSE [ok |-> FALSE, val |-> bs,       fetch |-> 1, write |-> 0, warn |-> FALSE]
        ELSE IF cfg.has_max
            THEN [ok |-> TRUE,  val |-> cfg.max,  fetch |-> 1, write |-> 1, warn |-> FALSE]
            ELSE [ok |-> TRUE,  val |-> batch_size_fallback,
                                                  fetch |-> 1, write |-> 1, warn |-> TRUE]
    ELSE [ok |-> TRUE, val |-> bs, fetch |-> 0, write |-> 0, warn |-> FALSE]

\* n successive reads of self.batch_size in one straight-line piece of code,
\* stopping at the first read that raises; the counts add up.
RECURSIVE ReadBatchSize(_, _, _)
ReadBatchSize(bs, cfg, n) ==
    IF n = 0 THEN [ok |-> TRUE, val |-> bs, fetch |-> 0, write |-> 0, warn |-> FALSE]
    ELSE LET r == batch_size(bs, cfg)
         IN  IF ~r.ok \/ n = 1 THEN r
             ELSE LET rest == ReadBatchSize(r.val, cfg, n - 1)
                  IN  [ok    |-> rest.ok,
                       val   |-> rest.val,
                       fetch |-> r.fetch + rest.fetch,
                       write |-> r.write + rest.write,
                       warn  |-> r.warn \/ rest.warn]

---------------------------------------------------------------------------
(* Requests.  A request is (output_list, input_dict); input_dict is an     *)
(* insertion-ordered dict, modelled as a sequence of named arrays.         *)

\* The value of row i of a request array: distinct per row, never zero, and
\* fractional (odd number of halves) in a floating array.
RowValue(i, dtype) == IF dtype = "int32" THEN 2 * i ELSE 2 * i - 1

\* An array of leading length len and trailing shape tail.
MkArr(len, tail, dtype) ==
    [shape |-> <<len>> \o tail,
     dtype |-> dtype,
     rows  |-> [i \in 1..len |-> RowValue(i, dtype)]]

\* The arrays a request may carry under each name: for "x" a matching one, one
\* of another element type, one with another trailing size, one of rank 3;
\* for "w" a floating one and one of rank 3; "q" is a name no schema has.
Items(len) ==
    { [name |-> "x", arr |-> MkArr(len, <<2>>, "float32")],
      [name |-> "x", arr |-> MkArr(len, <<2>>, "int32")],
      [name |-> "x", arr |-> MkArr(len, <<3>>, "float32")],
      [name |-> "x", arr |-> MkArr(len, <<2, 2>>, "float32")],
      [name |-> "w", arr |-> MkArr(len, <<2>>, "float32")],
      [name |-> "w", arr |-> MkArr(len, <<2, 2>>, "float32")],
      [name |-> "q", arr |-> MkArr(len, <<2>>, "float32")] }

OutputLists == { <<"y">>, <<"y", "z">> }

\* The input dicts whose arrays all have leading length len: at most two
\* entries, keys unique, every insertion order.
InputDicts(len) ==
    { <<>> } \cup { <<a>> : a \in Items(len) }
    \cup { p \in Items(len) \X Items(len) : p[1].name # p[2].name }

Requests(len) ==
    { [output_list |-> o, input_dict |-> d] : o \in OutputLists, d \in InputDicts(len) }

\* Leading length of the request's first array (0 for an empty dict, which
\* no dispatched request is).
OrigLen(req) ==
    IF Len(req.input_dict) = 0 THEN 0 ELSE req.input_dict[1].arr.shape[1]

---------------------------------------------------------------------------
(* validate_numpy_input.                                                   *)

NoError == [kind |-> "ok", name |-> ""]

\* Faulty variant of CheckInput: only negative schema dimensions are taken as
\* wildcards, a dimension 0 must match.
CheckInputZeroFixed(model_inputs, item) ==
    LET k == IndexOf(model_inputs, item.name)
    IN  IF k = 0 THEN [kind |-> "UnknownInput", name |-> item.name]
        ELSE LET ishape == item.arr.shape
                 mshape == model_inputs[k].shape
             IN  IF Len(ishape) # Len(mshape)
                 THEN [kind |-> "RankMismatch", name |-> item.name]
                 ELSE IF ~(\A d \in 1..Len(mshape) : mshape[d] >= 0 => ishape[d] = mshape[d])
                 THEN [kind |-> "ShapeMismatch", name |-> item.name]
                 ELSE NoError

\* The per-input checks of the first loop for one (iname, iarr): unknown
\* name, then rank, then the fixed dimensions.
CheckInput(model_inputs, item) ==
    LET k == IndexOf(model_inputs, item.name)
    IN  IF k = 0 THEN [kind |-> "UnknownInput", name |-> item.name]
        ELSE LET ishape == item.arr.shape
                 mshape == model_inputs[k].shape
             IN  IF Len(ishape) # Len(mshape)
                 THEN [kind |-> "RankMismatch", name |-> item.name]
                 ELSE IF ~(\A d \in 1..Len(mshape) : mshape[d] > 0 => ishape[d] = mshape[d])
                 THEN [kind |-> "ShapeMismatch", name |-> item.name]
                 ELSE NoError

\* Whether the first loop warns about the element type of an input that
\* passed CheckInput.
DtypeWarns(model_inputs, item) ==
    item.arr.dtype # triton_to_np_dtype(model_inputs[IndexOf(model_inputs, item.name)].datatype)

\* The first loop, from entry i on: the first error in input_dict order.
RECURSIVE CheckInputs(_, _, _)
CheckInputs(model_inputs, input_dict, i) ==
    IF i > Len(input_dict) THEN NoError
    ELSE LET e == CheckInput(model_inputs, input_dict[i])
         IN  IF e.kind # "ok" THEN e ELSE CheckInputs(model_inputs, input_dict, i + 1)

\* The inputs warned about before the first loop ends or raises.
RECURSIVE WarnedInputs(_, _, _)
WarnedInputs(model_inputs, input_dict, i) ==
    IF i > Len(input_dict) THEN {}
    ELSE IF CheckInput(model_inputs, input_dict[i]).kind # "ok" THEN {}
    ELSE (IF DtypeWarns(model_inputs, input_dict[i]) THEN {input_dict[i].name} ELSE {})
         \cup WarnedInputs(model_inputs, input_dict, i + 1)

\* The second loop: the first schema input, in schema order, that the
\* request lacks.
RECURSIVE CheckMissing(_, _, _)
CheckMissing(model_inputs, input_dict, i) ==
    IF i > Len(model_inputs) THEN NoError
    ELSE IF IndexOf(input_dict, model_inputs[i].name) = 0
    THEN [kind |-> "MissingInput", name |-> model_inputs[i].name]
    ELSE CheckMissing(model_inputs, input_dict, i + 1)

\* The third loop: the first requested output the schema does not define.
RECURSIVE CheckOutputs(_, _, _)
CheckOutputs(model_outputs, output_list, i) ==
    IF i > Len(output_list) THEN NoError
    ELSE IF IndexOf(model_outputs, output_list[i]) = 0
    THEN [kind |-> "UnknownOutput", name |-> output_list[i]]
    ELSE CheckOutputs(model_outputs, output_list, i + 1)

\* Faulty variant of validate_numpy_input: the missing-input loop runs before the
\* per-input loop.
ValidateMissingFirst(meta, req) ==
    LET model_inputs  == CreateModelInputs(meta)
        model_outputs == CreateModelOutputs(meta)
        e1 == CheckInputs(model_inputs, req.input_dict, 1)
        e2 == CheckMissing(model_inputs, req.input_dict, 1)
    IN  IF e2.kind # "ok" THEN e2
        ELSE IF e1.kind # "ok" THEN e1
        ELSE CheckOutputs(model_outputs, req.output_list, 1)

\* validate_numpy_input(output_list, input_dict) against a loaded schema:
\* the error raised (kind "ok" when it returns).
validate_numpy_input(meta, req) ==
    LET model_inputs  == CreateModelInputs(meta)
        model_outputs == CreateModelOutputs(meta)
        e1 == CheckInputs(model_inputs, req.input_dict, 1)
        e2 == CheckMissing(model_inputs, req.input_dict, 1)
    IN  IF e1.kind # "ok" THEN e1
        ELSE IF e2.kind # "ok" THEN e2
        ELSE CheckOutputs(model_outputs, req.output_list, 1)

\* Faulty variant of ListedNames: the unknown-input message lists the
\* schema's outputs.
ListedNamesOutputs(meta, e) ==
    CASE e.kind \in {"UnknownInput", "UnknownOutput"} ->
             [i \in 1..Len(meta.outputs) |-> meta.outputs[i].name]
      [] OTHER -> <<>>

\* The names the message of an error lists after the offending one: the
\* schema's inputs for an unknown input, its outputs for an unknown output.
ListedNames(meta, e) ==
    CASE e.kind = "UnknownInput"  -> [i \in 1..Len(meta.inputs) |-> meta.inputs[i].name]
      [] e.kind = "UnknownOutput" -> [i \in 1..Len(meta.outputs) |-> meta.outputs[i].name]
      [] OTHER -> <<>>

---------------------------------------------------------------------------
(* numpy_call: the pieces of one dispatch.                                 *)

\* _get_infer_shape(name): the schema shape with the negative dimensions
\* taken from the array and the leading one set to the batch size.
GetInferShape(mshape, ishape, bsize) ==
    [d \in 1..Len(mshape) |->
        IF d = 1 THEN bsize
        ELSE IF mshape[d] < 0 THEN ishape[d] ELSE mshape[d]]

\* The request's array for a schema input name (input_dict[name]).
InputArr(req, name) == req.input_dict[IndexOf(req.input_dict, name)].arr

\* Faulty variant of WindowData: the padded rows are attached with the
\* array's own element type, the astype of line 308 is left out.
WindowDataNoCast(arr, datatype, start, stop, bsize) ==
    [shape |-> <<bsize>> \o Tail(arr.shape),
     dtype |-> arr.dtype,
     rows  |-> Resize(Slice(arr.rows, start, stop), bsize)]

\* What set_data_from_numpy attaches to one input for the window
\* [start, stop): the slice, resized to bsize rows, cast to the schema type.
WindowData(arr, datatype, start, stop, bsize) ==
    LET mtype  == triton_to_np_dtype(datatype)
        padded == Resize(Slice(arr.rows, start, stop), bsize)
    IN  [shape |-> <<bsize>> \o Tail(arr.shape),
         dtype |-> mtype,
         rows  |-> [j \in 1..bsize |-> AsType(padded[j], mtype)]]

NoData == [shape |-> <<>>, dtype |-> "", rows |-> <<>>]

\* Faulty variant of StopIdx: the stop is not clipped to the length.
StopIdxNoClip(start, bsize, orig_len) == start + bsize

\* stop_idx = min([start_idx + self.batch_size, orig_len])
StopIdx(start, bsize, orig_len) == Min(start + bsize, orig_len)

\* The next value the loop's range() yields after start (the step is the
\* batch size read when the loop began).
NextStart(start, bsize) == start + bsize

\* Whether range(0, orig_len, bsize) yields anything (bsize # 0).
RangeNonEmpty(orig_len, bsize) == bsize > 0 /\ orig_len > 0

---------------------------------------------------------------------------
(* The transport's infer.  The server is outside the repository: it        *)
(* answers as many rows as it was sent, row i of an output computed from   *)
(* row i of the inputs, wildcard output dimensions resolved to 1.          *)

ServerRow(o, vals) == <<o>> \o vals

ServerInfer(inputs, output_list, model_outputs) ==
    [o \in Range(output_list) |->
        LET n == IF Len(inputs) = 0 THEN 0 ELSE Len(inputs[1].data.rows)
            oshape == model_outputs[IndexOf(model_outputs, o)].shape
        IN  [tail |-> [d \in 1..(Len(oshape) - 1) |->
                          IF oshape[d + 1] > 0 THEN oshape[d + 1] ELSE 1],
             rows |-> [i \in 1..n |->
                          ServerRow(o, [k \in 1..Len(inputs) |-> inputs[k].data.rows[i]])]]]

---------------------------------------------------------------------------
(* Result assembly.                                                        *)

NoOutput == [set |-> FALSE, arrs |-> <<>>]

\* Faulty variant of Assemble: a later response is put in front of the rows so far.
AssemblePrepend(output, response, output_list, start, stop) ==
    [set  |-> TRUE,
     arrs |-> [o \in Range(output_list) |->
                  [tail |-> response[o].tail,
                   rows |-> IF output.set
                            THEN response[o].rows \o output.arrs[o].rows
                            ELSE Slice(response[o].rows, start, stop)]]]

\* Faulty variant of Assemble: a later response replaces the rows so far.
AssembleOverwrite(output, response, output_list, start, stop) ==
    [set  |-> TRUE,
     arrs |-> [o \in Range(output_list) |->
                  [tail |-> response[o].tail,
                   rows |-> IF output.set
                            THEN response[o].rows
                            ELSE Slice(response[o].rows, start, stop)]]]

\* Faulty variant of Assemble: every response is cut to the stop - start rows of
\* its window before it is appended.
AssembleTrimAll(output, response, output_list, start, stop) ==
    [set  |-> TRUE,
     arrs |-> [o \in Range(output_list) |->
                  [tail |-> response[o].tail,
                   rows |-> IF output.set
                            THEN output.arrs[o].rows \o Slice(response[o].rows, 0, stop - start)
                            ELSE Slice(response[o].rows, start, stop)]]]

\* Lines 320-328: the first response is sliced [start_idx:stop_idx], every
\* later response is concatenated whole.
Assemble(output, response, output_list, start, stop) ==
    IF ~output.set
    THEN [set  |-> TRUE,
          arrs |-> [o \in Range(output_list) |->
                       [tail |-> response[o].tail,
                        rows |-> Slice(response[o].rows, start, stop)]]]
    ELSE [set  |-> TRUE,
          arrs |-> [o \in Range(output_list) |->
                       [tail |-> output.arrs[o].tail,
                        rows |-> output.arrs[o].rows \o response[o].rows]]]

\* numpy.zeros(shape=(0, *dims[1:])) raises on a negative dimension.
ZerosRaises(oshape) == \E d \in 2..Len(oshape) : oshape[d] < 0

\* Faulty variant of FinalResult: the assembled arrays are returned untruncated.
FinalResultNoTruncate(output, output_list, model_outputs, orig_len) ==
    [kind |-> "ok", name |-> "", value |-> 0,
     out  |-> [o \in Range(output_list) |->
                  IF output.set
                  THEN [tail |-> output.arrs[o].tail, rows |-> output.arrs[o].rows]
                  ELSE [tail |-> Tail(model_outputs[IndexOf(model_outputs, o)].shape),
                        rows |-> <<>>]]]

\* Lines 330-338: the value numpy_call returns (or the error it raises).
FinalResult(output, output_list, model_outputs, orig_len) ==
    IF ~output.set
    THEN IF \E i \in 1..Len(output_list) :
                ZerosRaises(model_outputs[IndexOf(model_outputs, output_list[i])].shape)
         THEN [kind |-> "ValueError", name |-> "zeros", value |-> 0, out |-> <<>>]
         ELSE [kind |-> "ok", name |-> "", value |-> 0,
               out  |-> [o \in Range(output_list) |->
                            [tail |-> Tail(model_outputs[IndexOf(model_outputs, o)].shape),
                             rows |-> <<>>]]]
    ELSE [kind |-> "ok", name |-> "", value |-> 0,
          out  |-> [o \in Range(output_list) |->
                       [tail |-> output.arrs[o].tail,
                        rows |-> Slice(output.arrs[o].rows, 0, orig_len)]]]

---------------------------------------------------------------------------
(* State.                                                                  *)

VARIABLES
    serverSchema,    \* what get_model_metadata answers
    serverConfig,    \* what get_model_config answers
    batch_size_arg,  \* the constructor's batch_size argument
    _batch_size,     \* self._batch_size
    model_metadata,  \* the lazy attribute model_metadata (NoMeta: not loaded)
    op,              \* the public operation last started
    pc,              \* position inside the operation ("ready": none running)
    req,             \* the arguments of the operation last started
    infer_inputs,    \* numpy_call's infer_inputs, with the data attached
    start_idx,       \* numpy_call's loop variable
    stop_idx,        \* numpy_call's stop_idx
    output,          \* numpy_call's output (None, or one array per name)
    inflight,        \* windows whose infer request awaits its response
    windows,         \* the windows this dispatch has sent, in order
    result,          \* what the operation last finished returned or raised
    warned,          \* the warnings the operation last started has issued
    opCalls,         \* transport calls made by the operation last started
    nConfig,         \* get_model_config calls made on this instance
    nWrites,         \* assignments to self._batch_size after construction
    nOps,            \* public operations started on this instance
    nMeta,           \* get_model_metadata calls made on this instance
    calls,           \* the transport calls of the operation last started, in order
    first            \* a completed dispatch the caller keeps, to compare with a repeat

vars == << serverSchema, serverConfig, batch_size_arg, _batch_size, model_metadata, op, pc, req,
           infer_inputs, start_idx, stop_idx, output, inflight, windows, result,
           warned, opCalls, nConfig, nWrites, nOps, nMeta, calls, first >>

\* What no operation changes: the endpoint's answers and the argument.
server == << serverSchema, serverConfig, batch_size_arg >>

\* Every request whose arrays have one leading length up to MaxLen.
AllRequests == UNION { Requests(len) : len \in 0..MaxLen }

\* The requests handed to numpy_call: its caller validates first, so they are
\* the ones validate_numpy_input accepts under the server's schema.
DispatchRequestsA == { r \in AllRequests : validate_numpy_input(SchemaA, r).kind = "ok" }

DispatchRequestsB == { r \in AllRequests : validate_numpy_input(SchemaB, r).kind = "ok" }

DispatchRequestsC == { r \in AllRequests : validate_numpy_input(SchemaC, r).kind = "ok" }

DispatchRequests(schema) ==
    CASE schema = SchemaA -> DispatchRequestsA
      [] schema = SchemaB -> DispatchRequestsB
      [] schema = SchemaC -> DispatchRequestsC

NoReq == [output_list |-> <<>>, input_dict |-> <<>>]

NoResult == [kind |-> "none", name |-> "", value |-> 0, out |-> <<>>]

NoCalls == [meta |-> 0, config |-> 0, infer |-> 0]

Raised(kind, name) == [kind |-> kind, name |-> name, value |-> 0, out |-> <<>>]

NoFirst == [set |-> FALSE, req |-> NoReq, result |-> NoResult]

\* __init__: nothing is fetched; _batch_size holds the constructor argument.
Init ==
    /\ serverSchema \in ServerSchemas
    /\ serverConfig \in ServerConfigs
    /\ batch_size_arg \in Overrides
    /\ batch_size_arg >= 0 => serverConfig \in OverriddenConfigs
    /\ _batch_size = batch_size_arg
    /\ model_metadata = NoMeta
    /\ op = "none"
    /\ pc = "ready"
    /\ req = NoReq
    /\ infer_inputs = <<>>
    /\ start_idx = 0
    /\ stop_idx = 0
    /\ output = NoOutput
    /\ inflight = {}
    /\ windows = <<>>
    /\ result = NoResult
    /\ warned = {}
    /\ opCalls = NoCalls
    /\ nConfig = 0
    /\ nWrites = 0
    /\ nOps = 0
    /\ nMeta = 0
    /\ calls = <<>>
    /\ first = NoFirst

\* The lazy attribute: fetched through the client on first use, kept after.
LoadMetadata(meta, schema) == IF meta.loaded THEN meta ELSE schema

MetaFetches(meta) == IF meta.loaded THEN 0 ELSE 1

\* n transport calls of one kind, as entries of the call log.
Logged(kind, n) == [i \in 1..n |-> kind]

---------------------------------------------------------------------------
(* Public operations.                                                      *)

\* A read of the batch_size property by the caller.
GetBatchSize ==
    /\ pc = "ready"
    /\ nOps < MaxOps
    /\ LET r == batch_size(_batch_size, serverConfig)
       IN  /\ _batch_size' = r.val
           /\ result' = IF r.ok THEN [kind |-> "ok", name |-> "", value |-> r.val, out |-> <<>>]
                        ELSE Raised("KeyError", "preferred_batch_size")
           /\ warned' = IF r.warn THEN {"batch_size_fallback"} ELSE {}
           /\ opCalls' = [meta |-> 0, config |-> r.fetch, infer |-> 0]
           /\ nConfig' = nConfig + r.fetch
           /\ nWrites' = nWrites + r.write
    /\ op' = "batch_size"
    /\ req' = NoReq
    /\ nOps' = nOps + 1
    /\ windows' = <<>>
    /\ pc' = "done"
    /\ calls' = Logged("config", opCalls'.config)
    /\ UNCHANGED << server, model_metadata, infer_inputs, start_idx, stop_idx,
                    output, inflight, nMeta, first >>

\* validate_numpy_input(output_list, input_dict).
Validate ==
    /\ pc = "ready"
    /\ nOps < MaxOps
    /\ \E r \in AllRequests :
        /\ model_metadata' = LoadMetadata(model_metadata, serverSchema)
        /\ LET e == validate_numpy_input(model_metadata', r)
           IN  result' = [kind |-> e.kind, name |-> e.name, value |-> 0, out |-> <<>>,
                          listed |-> ListedNames(model_metadata', e)]
        /\ warned' = WarnedInputs(CreateModelInputs(model_metadata'), r.input_dict, 1)
        /\ req' = r
    /\ opCalls' = [meta |-> MetaFetches(model_metadata), config |-> 0, infer |-> 0]
    /\ nMeta' = nMeta + MetaFetches(model_metadata)
    /\ calls' = Logged("meta", MetaFetches(model_metadata))
    /\ op' = "validate_numpy_input"
    /\ nOps' = nOps + 1
    /\ windows' = <<>>
    /\ pc' = "done"
    /\ UNCHANGED << server, _batch_size, infer_inputs, start_idx, stop_idx,
                    output, inflight, nConfig, nWrites, first >>

\* numpy_call, lines 274-297: the infer containers are built (one read of
\* batch_size per schema input), then the loop's range() is created (one more
\* read).
NumpyCallBeginOn(requests) ==
    /\ pc = "ready"
    /\ nOps < MaxOps
    /\ \E r \in requests :
        /\ model_metadata' = LoadMetadata(model_metadata, serverSchema)
        /\ LET model_inputs == CreateModelInputs(model_metadata')
               b == ReadBatchSize(_batch_size, serverConfig, Len(model_inputs) + 1)
           IN  /\ _batch_size' = b.val
               /\ nConfig' = nConfig + b.fetch
               /\ nWrites' = nWrites + b.write
               /\ opCalls' = [meta |-> MetaFetches(model_metadata), config |-> b.fetch, infer |-> 0]
               /\ calls' = Logged("meta", MetaFetches(model_metadata)) \o Logged("config", b.fetch)
               /\ warned' = IF b.warn THEN {"batch_size_fallback"} ELSE {}
               /\ IF ~b.ok
                  THEN /\ result' = Raised("KeyError", "preferred_batch_size")
                       /\ pc' = "done"
                       /\ infer_inputs' = <<>>
                  ELSE IF b.val = 0
                  THEN /\ result' = Raised("ValueError", "range")
                       /\ pc' = "done"
                       /\ infer_inputs' = <<>>
                  ELSE /\ result' = NoResult
                       /\ pc' = IF RangeNonEmpty(OrigLen(r), b.val) THEN "prepare" ELSE "return"
                       /\ infer_inputs' =
                              [i \in 1..Len(model_inputs) |->
                                  [name     |-> model_inputs[i].name,
                                   shape    |-> GetInferShape(model_inputs[i].shape,
                                                    InputArr(r, model_inputs[i].name).shape, b.val),
                                   datatype |-> model_inputs[i].datatype,
                                   data     |-> NoData]]
        /\ req' = r
    /\ op' = "numpy_call"
    /\ nOps' = nOps + 1
    /\ start_idx' = 0
    /\ stop_idx' = 0
    /\ output' = NoOutput
    /\ inflight' = {}
    /\ windows' = <<>>
    /\ nMeta' = nMeta + MetaFetches(model_metadata)
    /\ UNCHANGED << server, first >>

\* numpy_call with any request its caller has validated.
NumpyCallBegin == NumpyCallBeginOn(DispatchRequests(serverSchema))

\* Lines 298-311: stop_idx, then the padded, cast data of every input.
PrepareWindow ==
    /\ pc = "prepare"
    /\ LET model_inputs == CreateModelInputs(model_metadata)
           b == ReadBatchSize(_batch_size, serverConfig, Len(model_inputs) + 1)
           stop == StopIdx(start_idx, b.val, OrigLen(req))
       IN  /\ _batch_size' = b.val
           /\ nConfig' = nConfig + b.fetch
           /\ nWrites' = nWrites + b.write
           /\ opCalls' = [opCalls EXCEPT !.config = @ + b.fetch]
           /\ calls' = calls \o Logged("config", b.fetch)
           /\ stop_idx' = stop
           /\ infer_inputs' =
                  [i \in 1..Len(infer_inputs) |->
                      [infer_inputs[i] EXCEPT !.data =
                          WindowData(InputArr(req, model_inputs[i].name),
                                     model_inputs[i].datatype, start_idx, stop, b.val)]]
    /\ pc' = "infer"
    /\ UNCHANGED << server, model_metadata, op, req, start_idx, output, inflight,
                    windows, result, warned, nOps, nMeta, first >>

\* Faulty variant of InferCall: the request is sent without waiting for its
\* response and the loop goes on to the next window.
InferCallAsync ==
    /\ pc = "infer"
    /\ inflight' = inflight \cup {start_idx}
    /\ windows' = Append(windows, <<start_idx, stop_idx>>)
    /\ opCalls' = [opCalls EXCEPT !.infer = @ + 1]
    /\ calls' = Append(calls, "infer")
    /\ start_idx' = NextStart(start_idx, _batch_size)
    /\ pc' = IF start_idx' < OrigLen(req) THEN "prepare" ELSE "return"
    /\ UNCHANGED << server, _batch_size, model_metadata, op, req, infer_inputs,
                    stop_idx, output, result, warned, nConfig, nWrites, nOps, nMeta, first >>

\* Line 314, the call: the request for the window leaves.
InferCall ==
    /\ pc = "infer"
    /\ inflight' = inflight \cup {start_idx}
    /\ windows' = Append(windows, <<start_idx, stop_idx>>)
    /\ opCalls' = [opCalls EXCEPT !.infer = @ + 1]
    /\ calls' = Append(calls, "infer")
    /\ pc' = "await"
    /\ UNCHANGED << server, _batch_size, model_metadata, op, req, infer_inputs,
                    start_idx, stop_idx, output, result, warned, nConfig, nWrites, nOps, nMeta, first >>

\* Line 314, the response, then lines 320-328 and the loop's next step.
InferReturn ==
    /\ pc = "await"
    /\ LET response == ServerInfer(infer_inputs, req.output_list,
                                   CreateModelOutputs(model_metadata))
           next == NextStart(start_idx, _batch_size)
       IN  /\ output' = Assemble(output, response, req.output_list, start_idx, stop_idx)
           /\ start_idx' = next
           /\ pc' = IF next < OrigLen(req) THEN "prepare" ELSE "return"
    /\ inflight' = inflight \ {start_idx}
    /\ UNCHANGED << server, _batch_size, model_metadata, op, req, infer_inputs,
                    stop_idx, windows, result, warned, opCalls, nConfig, nWrites, nOps, nMeta, calls, first >>

\* Faulty variant of InferFail: the exception of line 314 is caught and the
\* same window is sent again.
InferFailRetry ==
    /\ pc = "await"
    /\ result' = Raised("TransportError", "infer")
    /\ pc' = "infer"
    /\ inflight' = inflight \ {start_idx}
    /\ UNCHANGED << server, _batch_size, model_metadata, op, req, infer_inputs, output,
                    start_idx, stop_idx, windows, warned, opCalls, nConfig, nWrites,
                    nOps, nMeta, calls, first >>

\* Line 314 raises: numpy_call has no handler, the exception leaves it and
\* its locals are gone.
InferFail ==
    /\ pc = "await"
    /\ result' = Raised("TransportError", "infer")
    /\ pc' = "done"
    /\ inflight' = inflight \ {start_idx}
    /\ output' = NoOutput
    /\ infer_inputs' = <<>>
    /\ UNCHANGED << server, _batch_size, model_metadata, op, req, start_idx, stop_idx,
                    windows, warned, opCalls, nConfig, nWrites, nOps, nMeta, calls, first >>

\* Lines 330-338.
NumpyCallReturn ==
    /\ pc = "return"
    /\ result' = FinalResult(output, req.output_list, CreateModelOutputs(model_metadata),
                             OrigLen(req))
    /\ pc' = "done"
    /\ output' = NoOutput
    /\ infer_inputs' = <<>>
    /\ UNCHANGED << server, _batch_size, model_metadata, op, req, start_idx, stop_idx,
                    inflight, windows, warned, opCalls, nConfig, nWrites, nOps, nMeta, calls, first >>

\* The operation has returned or raised: its arguments, locals and return
\* value belong to the caller; the instance keeps its attributes only.
Release ==
    /\ pc = "done"
    /\ pc' = "ready"
    /\ op' = "none"
    /\ req' = NoReq
    /\ result' = NoResult
    /\ warned' = {}
    /\ opCalls' = NoCalls
    /\ calls' = <<>>
    /\ windows' = <<>>
    /\ start_idx' = 0
    /\ stop_idx' = 0
    /\ UNCHANGED << server, _batch_size, model_metadata, infer_inputs, output, inflight,
                    nConfig, nWrites, nOps, nMeta, first >>

\* The caller keeps the request and the outcome of a dispatch that is over.
Remember ==
    /\ pc = "done"
    /\ op = "numpy_call"
    /\ ~first.set
    /\ first' = [set |-> TRUE, req |-> req, result |-> result]
    /\ pc' = "ready"
    /\ op' = "none"
    /\ req' = NoReq
    /\ result' = NoResult
    /\ warned' = {}
    /\ opCalls' = NoCalls
    /\ calls' = <<>>
    /\ windows' = <<>>
    /\ start_idx' = 0
    /\ stop_idx' = 0
    /\ UNCHANGED << server, _batch_size, model_metadata, infer_inputs, output, inflight,
                    nConfig, nWrites, nOps, nMeta >>

\* numpy_call with the very arguments of the dispatch the caller kept.
NumpyCallAgain == first.set /\ NumpyCallBeginOn({first.req})

\* The operations before the caller keeps a dispatch.
ValidateFirst == ~first.set /\ Validate

NumpyCallFirst == ~first.set /\ NumpyCallBegin

Next ==
    \/ GetBatchSize
    \/ Validate
    \/ NumpyCallBegin
    \/ PrepareWindow
    \/ InferCall
    \/ InferReturn
    \/ InferFail
    \/ NumpyCallReturn
    \/ Release

Spec == Init /\ [][Next]_vars

\* The runs in which a caller repeats a dispatch: any operations, then a
\* dispatch that is kept, then reads of batch_size and the same dispatch
\* again.
NextRepeat ==
    \/ GetBatchSize
    \/ ValidateFirst
    \/ NumpyCallFirst
    \/ NumpyCallAgain
    \/ PrepareWindow
    \/ InferCall
    \/ InferReturn
    \/ InferFail
    \/ NumpyCallReturn
    \/ Remember
    \/ Release

SpecRepeat == Init /\ [][NextRepeat]_vars

---------------------------------------------------------------------------
(* Properties.                                                             *)

CeilDiv(a, b) == (a + b - 1) \div b

\* A dispatch has returned a mapping and its batch size is positive.
DispatchOk ==
    pc = "done" /\ op = "numpy_call" /\ result.kind = "ok" /\ _batch_size > 0

\* C1: when a dispatch of a valid request of leading length L returns, with a
\* positive batch size and a transport answering full batches, every array
\* of the returned mapping has exactly L rows.
C1_ResultLength ==
    DispatchOk =>
        \A o \in DOMAIN result.out : Len(result.out[o].rows) = OrigLen(req)

\* A dispatch of several windows, the last one short, has returned arrays.
C1_Witness ==
    /\ DispatchOk
    /\ DOMAIN result.out # {}
    /\ OrigLen(req) > _batch_size
    /\ OrigLen(req) % _batch_size # 0

\* The row the transport answers for row i of the request: computed from
\* row i of every schema input, as sent (cast to the schema's type).
ExpectedRow(o, i) ==
    LET model_inputs == CreateModelInputs(model_metadata)
    IN  ServerRow(o, [k \in 1..Len(model_inputs) |->
                        AsType(InputArr(req, model_inputs[k].name).rows[i],
                               triton_to_np_dtype(model_inputs[k].datatype))])

\* C2: row i of every returned array is the transport's answer for input
\* row i, in the original order; no returned row comes from a padding row.
C2_RowsInOrder ==
    DispatchOk =>
        \A o \in DOMAIN result.out :
            /\ DOMAIN result.out[o].rows = 1..OrigLen(req)
            /\ \A i \in 1..OrigLen(req) : result.out[o].rows[i] = ExpectedRow(o, i)

\* Two inputs, one output, a length below the batch size: the only window
\* was padded.
C2_Witness ==
    /\ DispatchOk
    /\ Len(req.input_dict) = 2
    /\ DOMAIN result.out # {}
    /\ 0 < OrigLen(req)
    /\ OrigLen(req) < _batch_size

\* C3: the windows of a dispatch with batch size B > 0 over length L are
\* [0,B), [B,2B), ...: while the loop runs they are a prefix of that list, and
\* when the loop has ended there are ceil(L/B) of them and the last stops at L.
C3_Windows ==
    (op = "numpy_call" /\ _batch_size > 0) =>
        /\ \A k \in 1..Len(windows) :
              windows[k] = << (k - 1) * _batch_size,
                              Min(k * _batch_size, OrigLen(req)) >>
        /\ (pc = "return" \/ DispatchOk) =>
              /\ Len(windows) = CeilDiv(OrigLen(req), _batch_size)
              /\ Len(windows) > 0 => windows[Len(windows)][2] = OrigLen(req)

\* The loop has ended after three windows, the last one short.
C3_Witness ==
    /\ pc = "return"
    /\ Len(windows) = 3
    /\ windows[3][2] - windows[3][1] < _batch_size

\* C4: one infer call per window, in increasing window order; while the
\* inputs of a window are prepared or ready to send, no earlier round-trip is
\* in flight; never two in flight; a returned dispatch made ceil(L/B) calls.
C4_Sequential ==
    /\ Cardinality(inflight) <= 1
    /\ pc \in {"prepare", "infer"} => inflight = {}
    /\ pc = "await" => inflight = {start_idx}
    /\ op = "numpy_call" => opCalls.infer = Len(windows)
    /\ \A k \in 1..Len(windows) :
          /\ k > 1 => windows[k - 1][1] < windows[k][1]
          /\ pc \in {"prepare", "infer"} => windows[k][1] < start_idx
    /\ DispatchOk => opCalls.infer = CeilDiv(OrigLen(req), _batch_size)

\* The second window's request is in flight, after the first completed.
C4_Witness ==
    /\ pc = "await"
    /\ Len(windows) = 2
    /\ output.set

\* validate_numpy_input has returned or raised.
Validated == pc = "done" /\ op = "validate_numpy_input"

UnknownName(meta, item) == \A k \in 1..Len(meta.inputs) : meta.inputs[k].name # item.name

RankDiffers(meta, item) ==
    \E k \in 1..Len(meta.inputs) :
        /\ meta.inputs[k].name = item.name
        /\ Len(meta.inputs[k].shape) # Len(item.arr.shape)

ShapeDiffers(meta, item) ==
    \E k \in 1..Len(meta.inputs) :
        /\ meta.inputs[k].name = item.name
        /\ Len(meta.inputs[k].shape) = Len(item.arr.shape)
        /\ \E d \in 1..Len(item.arr.shape) :
              meta.inputs[k].shape[d] > 0 /\ meta.inputs[k].shape[d] # item.arr.shape[d]

TypeDiffers(meta, item) ==
    \E k \in 1..Len(meta.inputs) :
        /\ meta.inputs[k].name = item.name
        /\ triton_to_np_dtype(meta.inputs[k].datatype) # item.arr.dtype

MissingNames(meta, r) ==
    { k \in 1..Len(meta.inputs) :
        \A i \in 1..Len(r.input_dict) : r.input_dict[i].name # meta.inputs[k].name }

UnknownOutputs(meta, r) ==
    { i \in 1..Len(r.output_list) :
        \A k \in 1..Len(meta.outputs) : meta.outputs[k].name # r.output_list[i] }

Least(S) == CHOOSE m \in S : \A n \in S : m <= n

\* The error of the lowest-numbered violated check in the order: unknown
\* input, missing input, rank, fixed dimensions, unknown output.
DeclaredOrderKind(meta, r) ==
    LET d == r.input_dict
    IN  IF \E i \in 1..Len(d) : UnknownName(meta, d[i]) THEN "UnknownInput"
        ELSE IF MissingNames(meta, r) # {} THEN "MissingInput"
        ELSE IF \E i \in 1..Len(d) : RankDiffers(meta, d[i]) THEN "RankMismatch"
        ELSE IF \E i \in 1..Len(d) : ShapeDiffers(meta, d[i]) THEN "ShapeMismatch"
        ELSE IF UnknownOutputs(meta, r) # {} THEN "UnknownOutput"
        ELSE "ok"

\* C5 as stated: the error raised is the one of the lowest-numbered violated
\* check in the order unknown input, missing input, rank, shape, output.
C5_DeclaredOrder ==
    Validated => result.kind = DeclaredOrderKind(model_metadata, req)

\* The request inputs, in the request's order, that fail a per-input check.
BadInputs(meta, r) ==
    { i \in 1..Len(r.input_dict) :
        \/ UnknownName(meta, r.input_dict[i])
        \/ RankDiffers(meta, r.input_dict[i])
        \/ ShapeDiffers(meta, r.input_dict[i]) }

\* C5, amended: the checks run per request input, in the request's order
\* (unknown name, then rank, then fixed dimensions, then the element-type
\* warning); only when every request input has passed, the first missing
\* schema input is reported; last, the first unknown requested output.
C5_CodeOrder ==
    Validated =>
        LET bad == BadInputs(model_metadata, req)
            d   == req.input_dict
        IN  IF bad # {}
            THEN LET i == Least(bad)
                 IN  /\ result.name = d[i].name
                     /\ result.kind =
                            IF UnknownName(model_metadata, d[i]) THEN "UnknownInput"
                            ELSE IF RankDiffers(model_metadata, d[i]) THEN "RankMismatch"
                            ELSE "ShapeMismatch"
                     /\ warned = { d[j].name : j \in { n \in 1..(i - 1) :
                                                       TypeDiffers(model_metadata, d[n]) } }
            ELSE /\ warned = { d[j].name : j \in { n \in 1..Len(d) :
                                                   TypeDiffers(model_metadata, d[n]) } }
                 /\ IF MissingNames(model_metadata, req) # {}
                    THEN /\ result.kind = "MissingInput"
                         /\ result.name =
                                model_metadata.inputs[Least(MissingNames(model_metadata, req))].name
                    ELSE IF UnknownOutputs(model_metadata, req) # {}
                    THEN /\ result.kind = "UnknownOutput"
                         /\ result.name =
                                req.output_list[Least(UnknownOutputs(model_metadata, req))]
                    ELSE result.kind = "ok"

\* A request with a rank-mismatched input and a missing schema input has
\* been validated.
C5_Witness ==
    /\ Validated
    /\ MissingNames(model_metadata, req) # {}
    /\ \E i \in 1..Len(req.input_dict) : RankDiffers(model_metadata, req.input_dict[i])
    /\ \A i \in 1..Len(req.input_dict) : ~UnknownName(model_metadata, req.input_dict[i])

\* A dispatch of a request of leading length 0 has returned or raised, on an
\* instance whose batch size is positive.
EmptyDispatched ==
    pc = "done" /\ op = "numpy_call" /\ OrigLen(req) = 0 /\ _batch_size > 0

\* C6 as stated: a dispatch with L = 0 makes no transport call at all and
\* returns, for every requested output, an empty array of the declared
\* trailing shape (here for the instances with a positive batch size).
C6_EmptyDispatch ==
    EmptyDispatched =>
        /\ opCalls = NoCalls
        /\ result.kind = "ok"
        /\ \A i \in 1..Len(req.output_list) :
              LET o == req.output_list[i]
                  k == CHOOSE n \in 1..Len(model_metadata.outputs) :
                           model_metadata.outputs[n].name = o
              IN  result.out[o] = [tail |-> Tail(model_metadata.outputs[k].shape),
                                   rows |-> <<>>]

\* The caller's read of batch_size has returned a value.
BatchSizeRead == pc = "done" /\ op = "batch_size" /\ result.kind = "ok"

\* C7 as stated: the constructor's batch size is used if and only if it is
\* > 0; for every other value the server configuration is consulted.
C7_OverrideRule ==
    BatchSizeRead =>
        IF batch_size_arg > 0
        THEN result.value = batch_size_arg /\ nConfig = 0
        ELSE nConfig >= 1

\* The batch size the stated rule resolves from a configuration.
DeclaredResolve(cfg) ==
    IF cfg.has_dyn /\ cfg.has_pref THEN cfg.pref
    ELSE IF cfg.has_max /\ cfg.max > 0 THEN cfg.max
    ELSE batch_size_fallback

\* C8 as stated: an auto-resolved batch size is preferred_batch_size[0] if
\* present, else max_batch_size if present and > 0, else the fallback with
\* a warning; no configuration makes the resolution fail.
C8_AutoResolve ==
    (pc = "done" /\ op = "batch_size" /\ batch_size_arg < 0) =>
        /\ result.kind = "ok"
        /\ result.value = DeclaredResolve(serverConfig)
        /\ nOps = 1 =>
              ("batch_size_fallback" \in warned
                  <=> (~(serverConfig.has_dyn /\ serverConfig.has_pref)
                       /\ ~(serverConfig.has_max /\ serverConfig.max > 0)))

\* C9 as stated: on one instance the configuration is fetched at most once
\* and the cached batch size is written at most once.
C9_ResolvedOnce == nConfig <= 1 /\ nWrites <= 1

\* What was attached to input k for the window in flight, against row
\* start_idx + (j mod (stop_idx - start_idx)) of the request's array.
SentRow(k, j) == infer_inputs[k].data.rows[j]

SourceRow(k, j) ==
    InputArr(req, infer_inputs[k].name).rows[
        start_idx + ((j - 1) % (stop_idx - start_idx)) + 1]

\* C10 as stated: every array sent has B rows, the first stop - start being
\* the request's rows [start, stop) unchanged and every further row a copy
\* of row j mod (stop - start) of that slice.
C10_PaddedUnchanged ==
    pc = "await" =>
        \A k \in 1..Len(infer_inputs) :
            /\ DOMAIN infer_inputs[k].data.rows = 1.._batch_size
            /\ \A j \in 1.._batch_size : SentRow(k, j) = SourceRow(k, j)

\* C10, amended: every array sent has B rows, the first stop - start being
\* the request's rows [start, stop) cast to the schema's element type (so
\* unchanged when the types agree) and every further row the same cast of
\* row j mod (stop - start) of that slice; no row is filled in with zeros.
C10_PaddedCast ==
    pc = "await" =>
        \A k \in 1..Len(infer_inputs) :
            /\ DOMAIN infer_inputs[k].data.rows = 1.._batch_size
            /\ infer_inputs[k].data.shape[1] = _batch_size
            /\ \A j \in 1.._batch_size :
                  SentRow(k, j) =
                      AsType(SourceRow(k, j), triton_to_np_dtype(infer_inputs[k].datatype))

\* A short window that is not the first is in flight, and the cast changed
\* a row of one of its inputs.
C10_Witness ==
    /\ pc = "await"
    /\ start_idx > 0
    /\ stop_idx - start_idx < _batch_size
    /\ \E k \in 1..Len(infer_inputs) : SentRow(k, _batch_size) # SourceRow(k, _batch_size)

---------------------------------------------------------------------------
(* Transport failure.                                                      *)

\* The infer round-trip of a window of this dispatch has failed.
InferFailed == op = "numpy_call" /\ result.kind = "TransportError"

\* C11: once the infer round-trip of a window has failed the dispatch is
\* over: it returns no mapping, not even the outputs of the windows that
\* completed; the failed window is the last one sent, every window sent was
\* sent once, and no further infer call follows.
C11_FailAborts ==
    InferFailed =>
        /\ pc = "done"
        /\ result.out = <<>>
        /\ output = NoOutput
        /\ inflight = {}
        /\ opCalls.infer = Len(windows)
        /\ windows[Len(windows)][1] = start_idx
        /\ \A j, k \in 1..Len(windows) : j < k => windows[j][2] <= windows[k][1]

\* The second window has failed after the first completed, and windows
\* remain unsent.
C11_Witness ==
    /\ InferFailed
    /\ pc = "done"
    /\ Len(windows) = 2
    /\ _batch_size > 0
    /\ start_idx + _batch_size < OrigLen(req)

---------------------------------------------------------------------------
(* Validation: unknown inputs, validity, element types.                    *)

\* The request inputs, in the request's order, whose name the schema lacks.
UnknownInputs(meta, r) ==
    { i \in 1..Len(r.input_dict) : UnknownName(meta, r.input_dict[i]) }

SchemaInputNames(meta) == [k \in 1..Len(meta.inputs) |-> meta.inputs[k].name]

\* C12 as stated: validating a request with an input name the schema lacks
\* raises the error that names that input and lists the schema's input
\* names, and the operation has made no transport call of any kind, in
\* every state of the instance.
C12_NoNetwork ==
    (Validated /\ UnknownInputs(model_metadata, req) # {}) =>
        /\ result.kind = "UnknownInput"
        /\ \E i \in UnknownInputs(model_metadata, req) : req.input_dict[i].name = result.name
        /\ result.listed = SchemaInputNames(model_metadata)
        /\ opCalls = NoCalls

\* C12, amended: such a request always fails; when no request input before
\* the first unknown one fails its rank or shape check the error names that
\* input and lists the schema's input names, otherwise it is the error of
\* the earlier input.  Validation makes no config fetch and no infer call;
\* it fetches the metadata when the instance has not loaded it yet, once,
\* and makes no call at all afterwards.
C12_UnknownInput ==
    (Validated /\ UnknownInputs(model_metadata, req) # {}) =>
        LET u == Least(UnknownInputs(model_metadata, req))
        IN  /\ result.kind \in {"UnknownInput", "RankMismatch", "ShapeMismatch"}
            /\ Least(BadInputs(model_metadata, req)) = u =>
                  /\ result.kind = "UnknownInput"
                  /\ result.name = req.input_dict[u].name
                  /\ result.listed = SchemaInputNames(model_metadata)
            /\ Least(BadInputs(model_metadata, req)) < u =>
                  /\ result.kind \in {"RankMismatch", "ShapeMismatch"}
                  /\ result.name = req.input_dict[Least(BadInputs(model_metadata, req))].name
            /\ opCalls.config = 0
            /\ opCalls.infer = 0
            /\ calls \in {<<>>, <<"meta">>}
            /\ opCalls.meta = Len(calls)
            /\ nMeta = 1
            /\ nOps = 1 => calls = <<"meta">>

\* An unknown input is rejected by an instance that had loaded the schema
\* in an earlier operation.
C12_Witness ==
    /\ Validated
    /\ UnknownInputs(model_metadata, req) # {}
    /\ result.kind = "UnknownInput"
    /\ Len(result.listed) = 2
    /\ calls = <<>>

\* The spec's valid request: the request's input names are exactly the
\* schema's; each array has the rank of its schema shape and agrees with it
\* on every dimension the schema fixes (size > 0); every requested output is
\* an output of the schema.
ValidRequest(meta, r) ==
    /\ { r.input_dict[i].name : i \in 1..Len(r.input_dict) }
           = { meta.inputs[k].name : k \in 1..Len(meta.inputs) }
    /\ \A i \in 1..Len(r.input_dict) : \A k \in 1..Len(meta.inputs) :
          meta.inputs[k].name = r.input_dict[i].name =>
              /\ Len(r.input_dict[i].arr.shape) = Len(meta.inputs[k].shape)
              /\ \A d \in 1..Len(meta.inputs[k].shape) :
                    meta.inputs[k].shape[d] > 0 =>
                        r.input_dict[i].arr.shape[d] = meta.inputs[k].shape[d]
    /\ \A i \in 1..Len(r.output_list) :
          \E k \in 1..Len(meta.outputs) : meta.outputs[k].name = r.output_list[i]

\* C13: validate_numpy_input raises no error exactly when the request is
\* valid against the schema.
C13_ValidIffAccepted ==
    Validated => (result.kind = "ok" <=> ValidRequest(model_metadata, req))

\* A request whose array has size 2 where the schema writes 0 is accepted.
C13_Witness ==
    /\ Validated
    /\ result.kind = "ok"
    /\ model_metadata = SchemaC
    /\ req.input_dict[1].arr.shape[2] = 2

\* The request inputs whose element type differs from the schema's.
TypeDiffering(meta, r) ==
    { r.input_dict[i].name : i \in { n \in 1..Len(r.input_dict) : TypeDiffers(meta, r.input_dict[n]) } }

\* C14: an element-type difference is not an error: a request that is valid
\* but for the element type of inputs passes validation, with a warning for
\* each such input; the checks after the warning still run (an unknown
\* requested output is still reported); and every input array a dispatch
\* sends carries the element type the schema declares.
C14_DtypeNonFatal ==
    /\ (Validated /\ ValidRequest(model_metadata, req)) =>
          /\ result.kind = "ok"
          /\ warned = TypeDiffering(model_metadata, req)
    /\ (Validated /\ BadInputs(model_metadata, req) = {} /\ MissingNames(model_metadata, req) = {}
           /\ UnknownOutputs(model_metadata, req) # {}) =>
          /\ result.kind = "UnknownOutput"
          /\ warned = TypeDiffering(model_metadata, req)
    /\ pc \in {"infer", "await"} =>
          \A k \in 1..Len(infer_inputs) :
              /\ infer_inputs[k].datatype = model_metadata.inputs[k].datatype
              /\ infer_inputs[k].data.dtype = triton_to_np_dtype(model_metadata.inputs[k].datatype)
              /\ infer_inputs[k].data.dtype = "int32" =>
                    \A j \in DOMAIN infer_inputs[k].data.rows : infer_inputs[k].data.rows[j] % 2 = 0

\* A window is in flight for a request whose input has another element type
\* than the schema declares.
C14_Witness ==
    /\ pc = "await"
    /\ TypeDiffering(model_metadata, req) # {}

---------------------------------------------------------------------------
(* Lazy initialisation.                                                    *)

\* The place of a transport call in the order metadata, config, infer.
CallRank(c) == CASE c = "meta" -> 1 [] c = "config" -> 2 [] c = "infer" -> 3

\* The calls of the operation last started were made in the order metadata,
\* config, infer.
CallsInOrder == \A i, j \in 1..Len(calls) : i < j => CallRank(calls[i]) <= CallRank(calls[j])

\* C15 as stated: on an instance that resolves its batch size itself,
\* whatever operations are used, the config has been fetched only after the
\* metadata, and an infer call only after both.
C15_LazyOrder ==
    batch_size_arg < 0 =>
        /\ nConfig > 0 => model_metadata.loaded
        /\ opCalls.infer > 0 => (model_metadata.loaded /\ nConfig > 0)
        /\ CallsInOrder

\* C15, amended: inside a dispatch the metadata fetch comes before the
\* config fetch, and an infer call only after the schema is loaded and the
\* batch size resolved from a fetched config; the two caches are otherwise
\* independent: a read of batch_size fetches the config and never the
\* metadata, validation fetches the metadata and never the config.
C15_DispatchOrder ==
    batch_size_arg < 0 =>
        /\ CallsInOrder
        /\ (op = "numpy_call" /\ nConfig > 0) => model_metadata.loaded
        /\ opCalls.infer > 0 =>
              /\ model_metadata.loaded
              /\ nMeta = 1
              /\ nConfig > 0
              /\ _batch_size > 0
        /\ op = "batch_size" => (opCalls.meta = 0 /\ opCalls.infer = 0)
        /\ op = "validate_numpy_input" => (opCalls.config = 0 /\ opCalls.infer = 0)
        /\ model_metadata.loaded <=> nMeta = 1
        /\ nMeta <= 1

\* The first dispatch of a fresh instance has fetched the metadata, then the
\* config, then sent a window.
C15_Witness ==
    /\ batch_size_arg < 0
    /\ nOps = 1
    /\ calls = <<"meta", "config", "infer">>

---------------------------------------------------------------------------
(* Repeated dispatch.                                                      *)

\* A dispatch is over and the transport answered every call it made.
DispatchAnswered == pc = "done" /\ op = "numpy_call" /\ result.kind # "TransportError"

\* What a dispatch of request r yields as a function of r, the cached schema
\* and the cached batch size bs alone (cfg: what the server answers when
\* the batch size is still unresolved).
DispatchOutcome(r, meta, bs, cfg) ==
    LET outs == { r.output_list[i] : i \in 1..Len(r.output_list) }
        oshape(o) == (CHOOSE m \in { meta.outputs[k] : k \in 1..Len(meta.outputs) } :
                           m.name = o).shape
        len == r.input_dict[1].arr.shape[1]
    IN  IF bs < 0 /\ cfg.has_dyn /\ ~cfg.has_pref THEN Raised("KeyError", "preferred_batch_size")
        ELSE IF bs = 0 THEN Raised("ValueError", "range")
        ELSE IF bs < 0 \/ len = 0
        THEN IF \E o \in outs : \E d \in 2..Len(oshape(o)) : oshape(o)[d] < 0
             THEN Raised("ValueError", "zeros")
             ELSE [kind |-> "ok", name |-> "", value |-> 0,
                   out  |-> [o \in outs |-> [tail |-> Tail(oshape(o)), rows |-> <<>>]]]
        ELSE [kind |-> "ok", name |-> "", value |-> 0,
              out  |-> [o \in outs |->
                           [tail |-> [d \in 1..(Len(oshape(o)) - 1) |->
                                         IF oshape(o)[d + 1] > 0 THEN oshape(o)[d + 1] ELSE 1],
                            rows |-> [i \in 1..len |-> ExpectedRow(o, i)]]]]

\* C16: the outcome of a dispatch the transport answered depends on its
\* request, the cached schema and the cached batch size only; so a dispatch
\* repeated with the same arguments on the same instance (the first one
\* having filled the caches or not) has the outcome of the first.
C16_RepeatSame ==
    DispatchAnswered =>
        /\ result = DispatchOutcome(req, model_metadata, _batch_size, serverConfig)
        /\ (first.set /\ req = first.req /\ first.result.kind # "TransportError") =>
              result = first.result

\* The first operation of an instance was a dispatch of several windows, it
\* filled both caches and was kept; the same dispatch has returned again.
C16_Witness ==
    /\ DispatchAnswered
    /\ first.set
    /\ req = first.req
    /\ first.result.kind = "ok"
    /\ batch_size_arg < 0
    /\ nOps = 2
    /\ Len(windows) >= 2
    /\ opCalls = [meta |-> 0, config |-> 0, infer |-> Len(windows)]

---------------------------------------------------------------------------
(* Accumulated output and declared shapes.                                 *)

\* The response of a window has just been put into the accumulated output.
WindowAssembled ==
    op = "numpy_call" /\ pc \in {"prepare", "return"} /\ output.set /\ Len(windows) > 0

\* C17 as stated: after window [start, stop) is assembled the accumulated
\* array of every output has exactly stop rows, for every window, a short
\* final window that is not the first included.
C17_TrimmedPerWindow ==
    WindowAssembled =>
        \A o \in DOMAIN output.arrs : Len(output.arrs[o].rows) = windows[Len(windows)][2]

\* C17, amended: only the first response is cut to its window; every later
\* response is appended whole, so after window [start, stop) the
\* accumulated array has stop rows when the window is the first and
\* start + B rows otherwise, which exceeds stop exactly for a short final
\* window that is not the first; the returned array is cut to L rows.
C17_PaddedUntilReturn ==
    /\ WindowAssembled =>
          LET last == windows[Len(windows)]
          IN  \A o \in DOMAIN output.arrs :
                  /\ Len(output.arrs[o].rows) =
                         IF Len(windows) = 1 THEN last[2] ELSE last[1] + _batch_size
                  /\ Len(output.arrs[o].rows) > last[2] <=>
                         (Len(windows) > 1 /\ last[2] - last[1] < _batch_size)
    /\ DispatchOk => \A o \in DOMAIN result.out : Len(result.out[o].rows) <= OrigLen(req)

\* A short final window that is not the first has been assembled: the
\* accumulated arrays are longer than the request.
C17_Witness ==
    /\ WindowAssembled
    /\ pc = "return"
    /\ Len(windows) >= 2
    /\ \E o \in DOMAIN output.arrs : Len(output.arrs[o].rows) > OrigLen(req)

\* C18: for every request validate_numpy_input accepts, the shape declared
\* for each input at its construction equals the shape of the data
\* attached to it for every window, (B, *array.shape[1:]), whether the
\* schema writes a free dimension as a negative number or as 0.
C18_DeclaredShape ==
    (op = "numpy_call" /\ pc \in {"infer", "await"}) =>
        \A k \in 1..Len(infer_inputs) :
            /\ infer_inputs[k].data.shape
                   = <<_batch_size>> \o Tail(InputArr(req, infer_inputs[k].name).shape)
            /\ infer_inputs[k].shape = infer_inputs[k].data.shape

====
